---- MODULE Spec2Model ----
(***************************************************************************)
(* Session & conversation state of claudegram: the live session cache      *)
(* (SessionManager), the durable per-chat history (SessionHistory) and the *)
(* working-directory resolver (resolveWorkingDirectory).                   *)
(*                                                                         *)
(* JavaScript values are modelled as follows.                              *)
(*   string            a TLA+ string (Len, SubSeq and \o work on them)     *)
(*   T | undefined     a sequence of length <= 1: <<>> is undefined        *)
(*   Date              the number of milliseconds, a natural number        *)
(*   ISO-8601 string   the record [iso |-> ms] (toISOString / new Date(s)) *)
(*   Map / object      a function whose DOMAIN is the set of present keys  *)
(*   JSON text         the JSON value it denotes, every value tagged with  *)
(*                     its type ([str |-> s], [arr |-> a], [obj |-> o], ...); *)
(*                     [notJson |-> TRUE] is a text JSON.parse rejects        *)
(* A handler runs to completion at one instant of the clock.               *)
(***************************************************************************)
EXTENDS Integers, Sequences, FiniteSets, TLC

VARIABLES
    sessions,   \* SessionManager.sessions : Map<chatId, Session>
    data,       \* SessionHistory.data.sessions : chatId -> list of entries
    file,       \* content of sessions.json: <<>> (no file) or <<text>>
    clock,      \* Date.now()
    nextConv,   \* number of conversation ids generated so far
    fsExists,   \* the paths for which fs.existsSync is true
    home,       \* os.homedir()
    historyDirExists,   \* whether HISTORY_DIR (~/.claudegram) exists
    last,       \* the last call: operation, chat, return value, branches taken
    calls       \* number of calls made so far

vars == <<sessions, data, file, clock, nextConv, fsExists, home, historyDirExists, last, calls>>

(***************************************************************************)
(* Program constants.                                                      *)
(***************************************************************************)
MAX_HISTORY_PER_CHAT == 20
PREVIEW_LENGTH == 100

(***************************************************************************)
(* Bounds of the model.                                                    *)
(***************************************************************************)
MaxCalls == 3         \* Spec: the number of calls in a run
MaxClock == 1         \* the clock runs 0..MaxClock
MaxGenCap == 22       \* SpecCap: the number of generated conversation ids
MaxSideCalls == 1     \* SpecManager: the number of calls beside create and resume

Chats == {1, 2}

Undefined == <<>>
Some(v) == <<v>>

Min(a, b) == IF a < b THEN a ELSE b

(***************************************************************************)
(* String primitives of JavaScript used by the code.                       *)
(***************************************************************************)
\* String.prototype.startsWith
StartsWith(s, p) == Len(s) >= Len(p) /\ SubSeq(s, 1, Len(p)) = p

\* String.prototype.slice(n), n >= 0
Slice(s, n) == SubSeq(s, n + 1, Len(s))

\* substring with a plausible slip: substring(0, n + 1)
SubstringOneMore(s, n) == SubSeq(s, 1, Min(n + 1, Len(s)))

\* String.prototype.substring(0, n)
Substring(s, n) == SubSeq(s, 1, Min(n, Len(s)))

\* String.prototype.charAt: the character of s at 0-based index i, "" if none
CharAt(s, i) == IF i >= 0 /\ i < Len(s) THEN SubSeq(s, i + 1, i + 1) ELSE ""

\* String.prototype.indexOf(ch) for a one-character ch: 0-based, -1 if none
IndexOf(s, ch) ==
    LET hits == {i \in 0..(Len(s) - 1) : CharAt(s, i) = ch}
    IN  IF hits = {} THEN -1 ELSE CHOOSE i \in hits : \A j \in hits : i <= j

\* the last 0-based index of ch in s, -1 if none
LastIndexOf(s, ch) ==
    LET hits == {i \in 0..(Len(s) - 1) : CharAt(s, i) = ch}
    IN  IF hits = {} THEN -1 ELSE CHOOSE i \in hits : \A j \in hits : i >= j

RECURSIVE StripTrailingSlashes(_)
StripTrailingSlashes(s) ==
    IF Len(s) > 0 /\ CharAt(s, Len(s) - 1) = "/"
    THEN StripTrailingSlashes(SubSeq(s, 1, Len(s) - 1))
    ELSE s

\* path.basename (posix): the last segment, trailing separators ignored
basename(p) ==
    LET t == StripTrailingSlashes(p)
    IN  Slice(t, LastIndexOf(t, "/") + 1)

\* Date.prototype.toISOString and new Date(isoString)
toISOString(ms) == [iso |-> ms]
DateOf(s) == s.iso

\* Map.set / Map.delete, object key assignment / delete
Put(f, k, v) == [x \in (DOMAIN f) \cup {k} |-> IF x = k THEN v ELSE f[x]]
Delete(f, k) == [x \in (DOMAIN f) \ {k} |-> f[x]]
EmptyMap == [x \in {} |-> 0]

(***************************************************************************)
(* PathResolver.                                                           *)
(***************************************************************************)
existsSync(fs, p) == p \in fs

\* remapped with a plausible slip: rest.slice(slashIdx + 1) drops the separator
remappedDropsSeparator(h, storedPath, prefix) ==
    LET rest == Slice(storedPath, Len(prefix))
        slashIdx == IndexOf(rest, "/")
    IN  IF slashIdx = -1 THEN h ELSE h \o Slice(rest, slashIdx + 1)

\* one round of the loop over homePrefixes: the remapped candidate
remapped(h, storedPath, prefix) ==
    LET rest == Slice(storedPath, Len(prefix))
        slashIdx == IndexOf(rest, "/")
    IN  IF slashIdx = -1 THEN h ELSE h \o Slice(rest, slashIdx)

homePrefixes == <<"/Users/", "/home/">>

RECURSIVE remapLoop(_, _, _, _)
remapLoop(fs, h, storedPath, i) ==
    IF i > Len(homePrefixes) THEN h
    ELSE IF /\ StartsWith(storedPath, homePrefixes[i])
            /\ existsSync(fs, remapped(h, storedPath, homePrefixes[i]))
         THEN remapped(h, storedPath, homePrefixes[i])
         ELSE remapLoop(fs, h, storedPath, i + 1)

\* resolveIn with a plausible slip: the check of the stored path itself is missing
resolveInSkipsVerbatim(fs, h, storedPath) == remapLoop(fs, h, storedPath, 1)

resolveIn(fs, h, storedPath) ==
    IF existsSync(fs, storedPath) THEN storedPath
    ELSE remapLoop(fs, h, storedPath, 1)

resolveWorkingDirectory(storedPath) == resolveIn(fsExists, home, storedPath)

(***************************************************************************)
(* SessionHistory (HistoryStore).                                          *)
(***************************************************************************)
\* this.data.sessions[chatId] || []
historyOf(d, chatId) == IF chatId \in DOMAIN d THEN d[chatId] ELSE <<>>

\* history.findIndex(entry => entry.conversationId === conversationId), 0-based
findIndex(history, conversationId) ==
    LET hits == {i \in 1..Len(history) : history[i].conversationId = conversationId}
    IN  IF hits = {} THEN -1
        ELSE (CHOOSE i \in hits : \A j \in hits : i <= j) - 1

\* newEntry with a plausible slip: an empty preview keeps the stored one
\* (lastMessagePreview || existingEntry?.lastMessagePreview)
newEntryKeepsPreview(history, conversationId, projectPath, lastMessagePreview, claudeSessionId, now) ==
    LET existingIndex == findIndex(history, conversationId)
    IN  [ conversationId |-> conversationId,
          claudeSessionId |->
              IF claudeSessionId # Undefined THEN claudeSessionId
              ELSE IF existingIndex >= 0 THEN history[existingIndex + 1].claudeSessionId
              ELSE Undefined,
          projectPath |-> projectPath,
          projectName |-> basename(projectPath),
          lastMessagePreview |->
              IF lastMessagePreview = "" /\ existingIndex >= 0
              THEN history[existingIndex + 1].lastMessagePreview
              ELSE Substring(lastMessagePreview, PREVIEW_LENGTH),
          createdAt |->
              IF existingIndex >= 0 THEN history[existingIndex + 1].createdAt
              ELSE toISOString(now),
          lastActivity |-> toISOString(now) ]

\* the entry saveSession builds
newEntry(history, conversationId, projectPath, lastMessagePreview, claudeSessionId, now) ==
    LET existingIndex == findIndex(history, conversationId)
    IN  [ conversationId |-> conversationId,
          claudeSessionId |->
              IF claudeSessionId # Undefined THEN claudeSessionId
              ELSE IF existingIndex >= 0 THEN history[existingIndex + 1].claudeSessionId
              ELSE Undefined,
          projectPath |-> projectPath,
          projectName |-> basename(projectPath),
          lastMessagePreview |-> Substring(lastMessagePreview, PREVIEW_LENGTH),
          createdAt |->
              IF existingIndex >= 0 THEN history[existingIndex + 1].createdAt
              ELSE toISOString(now),
          lastActivity |-> toISOString(now) ]

\* upsert with a plausible slip: an updated entry is moved to the head
upsertMovesToHead(history, entry) ==
    LET existingIndex == findIndex(history, entry.conversationId)
    IN  IF existingIndex >= 0
        THEN <<entry>> \o SubSeq(history, 1, existingIndex)
                       \o SubSeq(history, existingIndex + 2, Len(history))
        ELSE <<entry>> \o history

\* upsert with a plausible slip: a new entry overwrites the head (history[0] = entry)
upsertOverwritesHead(history, entry) ==
    LET existingIndex == findIndex(history, entry.conversationId)
    IN  IF existingIndex >= 0
        THEN [history EXCEPT ![existingIndex + 1] = entry]
        ELSE IF Len(history) = 0 THEN <<entry>>
        ELSE [history EXCEPT ![1] = entry]

\* upsert with a plausible slip: the entry is always unshifted
upsertAlwaysUnshift(history, entry) == <<entry>> \o history

\* history[existingIndex] = entry, or history.unshift(entry)
upsert(history, entry) ==
    LET existingIndex == findIndex(history, entry.conversationId)
    IN  IF existingIndex >= 0
        THEN [history EXCEPT ![existingIndex + 1] = entry]
        ELSE <<entry>> \o history

\* truncate with a plausible slip: slice(-MAX_HISTORY_PER_CHAT) keeps the oldest
truncateKeepsOldest(history) ==
    IF Len(history) > MAX_HISTORY_PER_CHAT
    THEN SubSeq(history, Len(history) - MAX_HISTORY_PER_CHAT + 1, Len(history))
    ELSE history

\* history.slice(0, MAX_HISTORY_PER_CHAT) when the list is too long
truncate(history) ==
    IF Len(history) > MAX_HISTORY_PER_CHAT
    THEN SubSeq(history, 1, MAX_HISTORY_PER_CHAT)
    ELSE history

\* the in-memory effect of SessionHistory.saveSession
saveSessionIn(d, chatId, conversationId, projectPath, lastMessagePreview, claudeSessionId, now) ==
    LET history == historyOf(d, chatId)
        entry == newEntry(history, conversationId, projectPath,
                          lastMessagePreview, claudeSessionId, now)
    IN  Put(d, chatId, truncate(upsert(history, entry)))

\* JSON values.  An ISO-8601 string [iso |-> ms] is a JSON string as it stands.
JStr(s) == [str |-> s]
JNum(n) == [num |-> n]
JNull == [null |-> TRUE]
JArr(a) == [arr |-> a]
JObj(o) == [obj |-> o]
NotJson == [notJson |-> TRUE]

IsJString(v) == DOMAIN v \in {{"str"}, {"iso"}}
IsJArray(v) == DOMAIN v = {"arr"}
IsJObject(v) == DOMAIN v = {"obj"}

\* jsonEntry with a plausible slip: an undefined claudeSessionId is written as null
jsonEntryNull(e) ==
    JObj([ conversationId |-> JStr(e.conversationId),
           claudeSessionId |->
               IF e.claudeSessionId = Undefined THEN JNull
               ELSE JStr(e.claudeSessionId[1]),
           projectPath |-> JStr(e.projectPath),
           projectName |-> JStr(e.projectName),
           lastMessagePreview |-> JStr(e.lastMessagePreview),
           createdAt |-> e.createdAt,
           lastActivity |-> e.lastActivity ])

\* JSON.stringify of one entry: a key whose value is undefined is left out
jsonEntry(e) ==
    IF e.claudeSessionId = Undefined
    THEN JObj([ conversationId |-> JStr(e.conversationId),
                projectPath |-> JStr(e.projectPath),
                projectName |-> JStr(e.projectName),
                lastMessagePreview |-> JStr(e.lastMessagePreview),
                createdAt |-> e.createdAt,
                lastActivity |-> e.lastActivity ])
    ELSE JObj([ conversationId |-> JStr(e.conversationId),
                claudeSessionId |-> JStr(e.claudeSessionId[1]),
                projectPath |-> JStr(e.projectPath),
                projectName |-> JStr(e.projectName),
                lastMessagePreview |-> JStr(e.lastMessagePreview),
                createdAt |-> e.createdAt,
                lastActivity |-> e.lastActivity ])

\* JSON.stringify(this.data): the keys of the object are strings
stringify(d) ==
    JObj([ sessions |->
        JObj([ k \in {ToString(c) : c \in DOMAIN d} |->
            LET c == CHOOSE x \in DOMAIN d : ToString(x) = k
            IN  JArr([i \in 1..Len(d[c]) |-> jsonEntry(d[c][i])]) ]) ])

\* SessionHistory.save: the contents sessions.json can have after the call.
\* fs.writeFileSync opens the file with O_TRUNC and then writes.  When it
\* returns, the file holds the document.  When it throws, the error is logged
\* and either the open was refused (EACCES, EROFS: the file is as it was) or a
\* write failed after the truncation (ENOSPC, EIO: the file holds a proper
\* prefix of the document, which is not a JSON text).
save(f, d, ok) == IF ok THEN {Some(stringify(d))} ELSE {f, Some(NotJson)}

\* parseInt(key, 10): leading blanks and one sign are skipped, the longest
\* run of decimal digits is read, what follows is ignored; <<>> is NaN
Digits == "0123456789"
IsDigit(ch) == Len(ch) = 1 /\ IndexOf(Digits, ch) >= 0

RECURSIVE skipBlanks(_)
skipBlanks(s) ==
    IF Len(s) > 0 /\ CharAt(s, 0) = " " THEN skipBlanks(Slice(s, 1)) ELSE s

RECURSIVE readDigits(_, _)
readDigits(s, acc) ==
    IF IsDigit(CharAt(s, 0))
    THEN readDigits(Slice(s, 1), 10 * acc + IndexOf(Digits, CharAt(s, 0)))
    ELSE acc

parseInt(key) ==
    LET t == skipBlanks(key)
        signed == CharAt(t, 0) = "-" \/ CharAt(t, 0) = "+"
        u == IF signed THEN Slice(t, 1) ELSE t
    IN  IF ~IsDigit(CharAt(u, 0)) THEN Undefined
        ELSE IF CharAt(t, 0) = "-" THEN Some(0 - readDigits(u, 0))
        ELSE Some(readDigits(u, 0))

\* sessionHistoryEntrySchema: six strings, claudeSessionId optional
RequiredKeys ==
    {"conversationId", "projectPath", "projectName", "lastMessagePreview",
     "createdAt", "lastActivity"}

entrySchemaAccepts(v) ==
    /\ IsJObject(v)
    /\ \A k \in RequiredKeys : k \in DOMAIN v.obj /\ IsJString(v.obj[k])
    /\ "claudeSessionId" \in DOMAIN v.obj => IsJString(v.obj.claudeSessionId)

\* sessionHistoryDataSchema.safeParse(parsed).success
safeParseSuccess(v) ==
    /\ IsJObject(v)
    /\ "sessions" \in DOMAIN v.obj
    /\ IsJObject(v.obj.sessions)
    /\ \A k \in DOMAIN v.obj.sessions.obj :
          /\ IsJArray(v.obj.sessions.obj[k])
          /\ \A i \in 1..Len(v.obj.sessions.obj[k].arr) :
                entrySchemaAccepts(v.obj.sessions.obj[k].arr[i])

\* the string a JSON string denotes (a timestamp stays an ISO-8601 string)
stringOf(v) == IF DOMAIN v = {"str"} THEN v.str ELSE v

\* one entry of result.data: the keys of the schema, any other key stripped
parsedEntry(v) ==
    [ conversationId |-> stringOf(v.obj.conversationId),
      claudeSessionId |->
          IF "claudeSessionId" \in DOMAIN v.obj
          THEN Some(stringOf(v.obj.claudeSessionId)) ELSE Undefined,
      projectPath |-> stringOf(v.obj.projectPath),
      projectName |-> stringOf(v.obj.projectName),
      lastMessagePreview |-> stringOf(v.obj.lastMessagePreview),
      createdAt |-> stringOf(v.obj.createdAt),
      lastActivity |-> stringOf(v.obj.lastActivity) ]

parsedList(v) == [i \in 1..Len(v.arr) |-> parsedEntry(v.arr[i])]

\* Object.entries order: the array-index keys ("0", "1", "2", ...) in
\* ascending order, then the other keys in the order of the text
IsArrayIndex(k) ==
    LET n == parseInt(k)
    IN  n # Undefined /\ n[1] >= 0 /\ ToString(n[1]) = k

RECURSIVE ascending(_)
ascending(keys) ==
    IF keys = {} THEN <<>>
    ELSE LET k == CHOOSE x \in keys : \A y \in keys : parseInt(x)[1] <= parseInt(y)[1]
         IN  <<k>> \o ascending(keys \ {k})

\* the order of the keys that are no array index in the texts of the model
TextOrder == <<" 2", "1x", "-1", "x1", "abc", "">>

ObjectKeys(o) ==
    ascending({k \in DOMAIN o : IsArrayIndex(k)})
        \o SelectSeq(TextOrder, LAMBDA k : k \in DOMAIN o /\ ~IsArrayIndex(k))

\* the loop of load: string keys to number keys, NaN skipped
RECURSIVE convertKeys(_, _, _)
convertKeys(acc, o, keys) ==
    IF keys = <<>> THEN acc
    ELSE LET key == Head(keys)
             chatId == parseInt(key)
         IN  convertKeys(IF chatId = Undefined THEN acc
                         ELSE Put(acc, chatId[1], parsedList(o[key])),
                         o, Tail(keys))

\* this.data.sessions after SessionHistory.load: f is the file, readOk whether
\* fs.readFileSync returns
load(f, readOk) ==
    IF f = Undefined THEN EmptyMap
    ELSE IF ~readOk THEN EmptyMap
    ELSE IF f[1] = NotJson THEN EmptyMap
    ELSE IF safeParseSuccess(f[1])
         THEN convertKeys(EmptyMap, f[1].obj.sessions.obj,
                          ObjectKeys(f[1].obj.sessions.obj))
         ELSE EmptyMap

\* getLastSession with a plausible slip: history[history.length - 1]
getLastSessionOldest(d, chatId) ==
    IF chatId \in DOMAIN d /\ Len(d[chatId]) > 0
    THEN Some(d[chatId][Len(d[chatId])]) ELSE Undefined

\* getSessionByConversationId with a plausible slip: falls back to the newest entry
getSessionByConversationIdOrNewest(d, chatId, conversationId) ==
    LET history == historyOf(d, chatId)
        idx == findIndex(history, conversationId)
    IN  IF idx >= 0 THEN Some(history[idx + 1])
        ELSE IF Len(history) > 0 THEN Some(history[1]) ELSE Undefined

\* getLastSession / getSessionByConversationId / getHistory
getLastSession(d, chatId) ==
    IF chatId \in DOMAIN d /\ Len(d[chatId]) > 0 THEN Some(d[chatId][1]) ELSE Undefined

getSessionByConversationId(d, chatId, conversationId) ==
    LET history == historyOf(d, chatId)
        idx == findIndex(history, conversationId)
    IN  IF idx >= 0 THEN Some(history[idx + 1]) ELSE Undefined

getHistory(d, chatId, limit) ==
    LET history == historyOf(d, chatId)
    IN  SubSeq(history, 1, Min(limit, Len(history)))

\* the in-memory effect of updateLastMessage and updateClaudeSessionId
updateLastMessageIn(d, chatId, conversationId, preview, now) ==
    LET idx == findIndex(historyOf(d, chatId), conversationId)
    IN  IF chatId \notin DOMAIN d \/ idx < 0 THEN d
        ELSE [d EXCEPT ![chatId][idx + 1] =
                [@ EXCEPT !.lastMessagePreview = Substring(preview, PREVIEW_LENGTH),
                          !.lastActivity = toISOString(now)]]

updateClaudeSessionIdIn(d, chatId, conversationId, claudeSessionId, now) ==
    LET idx == findIndex(historyOf(d, chatId), conversationId)
    IN  IF chatId \notin DOMAIN d \/ idx < 0 THEN d
        ELSE [d EXCEPT ![chatId][idx + 1] =
                [@ EXCEPT !.claudeSessionId = Some(claudeSessionId),
                          !.lastActivity = toISOString(now)]]

\* whether updateLastMessage / updateClaudeSessionId reach this.save()
entryKnown(d, chatId, conversationId) ==
    chatId \in DOMAIN d /\ findIndex(d[chatId], conversationId) >= 0

(***************************************************************************)
(* The record of the last call.                                            *)
(***************************************************************************)
\* prior is the conversation that was live for the chat when the call began;
\* existingIndex and truncated describe the saveSession the call made, if any
Call(op, chatId, ret, before, conversationId, saved) ==
    [ op |-> op,
      chatId |-> chatId,
      ret |-> ret,
      prior |-> IF chatId \in DOMAIN sessions
                THEN Some(sessions[chatId].conversationId) ELSE Undefined,
      existingIndex |->
          IF saved THEN findIndex(historyOf(before, chatId), conversationId) ELSE -2,
      truncated |->
          /\ saved
          /\ findIndex(historyOf(before, chatId), conversationId) < 0
          /\ Len(historyOf(before, chatId)) >= MAX_HISTORY_PER_CHAT ]

NoCall == [op |-> "start", chatId |-> 0, ret |-> Undefined, prior |-> Undefined,
           existingIndex |-> -2, truncated |-> FALSE]

(***************************************************************************)
(* SessionManager.                                                         *)
(***************************************************************************)
\* conv_<time>_<random>: a token no earlier call produced
generateConversationId == "conv_" \o ToString(nextConv + 1)

\* conversationId || this.generateConversationId()
Falsy(opt) == opt = Undefined \/ opt = Some("")

getSession(chatId) ==
    IF chatId \in DOMAIN sessions THEN Some(sessions[chatId]) ELSE Undefined

\* the Session object createSession builds
newSession(id, resolved, now) ==
    [ conversationId |-> id,
      claudeSessionId |-> Undefined,
      workingDirectory |-> resolved,
      createdAt |-> now,
      lastActivity |-> now ]

\* createSession, also reached from setWorkingDirectory (op names the entry point)
createSessionAs(op, chatId, workingDirectory, conversationId, ok) ==
    LET resolved == resolveWorkingDirectory(workingDirectory)
        id == IF Falsy(conversationId) THEN generateConversationId
              ELSE conversationId[1]
        session == newSession(id, resolved, clock)
    IN  /\ sessions' = Put(sessions, chatId, session)
        /\ data' = saveSessionIn(data, chatId, id, resolved, "",
                                 session.claudeSessionId, clock)
        /\ file' \in save(file, data', ok)
        /\ nextConv' = IF Falsy(conversationId) THEN nextConv + 1 ELSE nextConv
        /\ last' = Call(op, chatId, Some(session), data, id, TRUE)
        /\ UNCHANGED <<clock, fsExists, home, historyDirExists>>

createSession(chatId, workingDirectory, conversationId, ok) ==
    createSessionAs("createSession", chatId, workingDirectory, conversationId, ok)

updateActivity(chatId, messagePreview, ok) ==
    /\ IF chatId \in DOMAIN sessions
       THEN /\ sessions' = [sessions EXCEPT ![chatId].lastActivity = clock]
            /\ IF ~Falsy(messagePreview)
               THEN /\ data' = updateLastMessageIn(data, chatId,
                                   sessions[chatId].conversationId,
                                   messagePreview[1], clock)
                    /\ file' \in IF entryKnown(data, chatId, sessions[chatId].conversationId)
                               THEN save(file, data', ok) ELSE {file}
               ELSE UNCHANGED <<data, file>>
       ELSE UNCHANGED <<sessions, data, file>>
    /\ last' = Call("updateActivity", chatId, Undefined, data, "", FALSE)
    /\ UNCHANGED <<clock, nextConv, fsExists, home, historyDirExists>>

\* movedSession with a plausible slip: the directory goes through the resolver
movedSessionResolved(existing, directory, now) ==
    [existing EXCEPT !.workingDirectory = resolveWorkingDirectory(directory),
                     !.lastActivity = now]

\* the live session after setWorkingDirectory changed it in place
movedSession(existing, directory, now) ==
    [existing EXCEPT !.workingDirectory = directory, !.lastActivity = now]

setWorkingDirectory(chatId, directory, ok) ==
    IF chatId \in DOMAIN sessions
    THEN LET existing == movedSession(sessions[chatId], directory, clock)
         IN  /\ sessions' = [sessions EXCEPT ![chatId] = existing]
             /\ data' = saveSessionIn(data, chatId, existing.conversationId, directory,
                                      "", existing.claudeSessionId, clock)
             /\ file' \in save(file, data', ok)
             /\ last' = Call("setWorkingDirectory", chatId, Some(existing), data,
                             existing.conversationId, TRUE)
             /\ UNCHANGED <<clock, nextConv, fsExists, home, historyDirExists>>
    ELSE createSessionAs("setWorkingDirectory", chatId, directory, Undefined, ok)

\* clearSession with a plausible slip: the history of the chat is cleared too
clearSessionAndHistory(chatId) ==
    /\ sessions' = Delete(sessions, chatId)
    /\ data' = Delete(data, chatId)
    /\ file' \in save(file, data', TRUE)
    /\ last' = Call("clearSession", chatId, Undefined, data, "", FALSE)
    /\ UNCHANGED <<clock, nextConv, fsExists, home, historyDirExists>>

clearSession(chatId) ==
    /\ sessions' = Delete(sessions, chatId)
    /\ last' = Call("clearSession", chatId, Undefined, data, "", FALSE)
    /\ UNCHANGED <<data, file, clock, nextConv, fsExists, home, historyDirExists>>

\* resumedSession with a plausible slip: createdAt is new Date()
resumedSessionCreatedNow(historyEntry, resolvedPath, now) ==
    [ conversationId |-> historyEntry.conversationId,
      claudeSessionId |-> historyEntry.claudeSessionId,
      workingDirectory |-> resolvedPath,
      createdAt |-> now,
      lastActivity |-> now ]

\* the Session object resumeSession builds from a history entry
resumedSession(historyEntry, resolvedPath, now) ==
    [ conversationId |-> historyEntry.conversationId,
      claudeSessionId |-> historyEntry.claudeSessionId,
      workingDirectory |-> resolvedPath,
      createdAt |-> DateOf(historyEntry.createdAt),
      lastActivity |-> now ]

\* resumeSession, also reached from resumeLastSession (op names the entry point)
resumeSessionAs(op, chatId, conversationId, ok) ==
    LET found == getSessionByConversationId(data, chatId, conversationId)
    IN  IF found = Undefined
        THEN /\ last' = Call(op, chatId, Undefined, data, "", FALSE)
             /\ UNCHANGED <<sessions, data, file, clock, nextConv, fsExists, home, historyDirExists>>
        ELSE LET historyEntry == found[1]
                 resolvedPath == resolveWorkingDirectory(historyEntry.projectPath)
                 session == resumedSession(historyEntry, resolvedPath, clock)
             IN  /\ sessions' = Put(sessions, chatId, session)
                 /\ data' = saveSessionIn(data, chatId, conversationId, resolvedPath,
                                          historyEntry.lastMessagePreview,
                                          historyEntry.claudeSessionId, clock)
                 /\ file' \in save(file, data', ok)
                 /\ last' = Call(op, chatId, Some(session), data, conversationId, TRUE)
                 /\ UNCHANGED <<clock, nextConv, fsExists, home, historyDirExists>>

resumeSession(chatId, conversationId, ok) ==
    resumeSessionAs("resumeSession", chatId, conversationId, ok)

resumeLastSession(chatId, ok) ==
    LET lastEntry == getLastSession(data, chatId)
    IN  IF lastEntry = Undefined
        THEN /\ last' = Call("resumeLastSession", chatId, Undefined, data, "", FALSE)
             /\ UNCHANGED <<sessions, data, file, clock, nextConv, fsExists, home, historyDirExists>>
        ELSE resumeSessionAs("resumeLastSession", chatId, lastEntry[1].conversationId, ok)

getSessionHistory(chatId, limit) == getHistory(data, chatId, limit)

\* setClaudeSessionId with a plausible slip: a chat without a session gets one
setClaudeSessionIdOrCreate(chatId, claudeSessionId, ok) ==
    IF chatId \in DOMAIN sessions
    THEN /\ sessions' = [sessions EXCEPT ![chatId].claudeSessionId = Some(claudeSessionId),
                                         ![chatId].lastActivity = clock]
         /\ data' = updateClaudeSessionIdIn(data, chatId,
                        sessions[chatId].conversationId, claudeSessionId, clock)
         /\ file' \in IF entryKnown(data, chatId, sessions[chatId].conversationId)
                      THEN save(file, data', ok) ELSE {file}
         /\ last' = Call("setClaudeSessionId", chatId, Undefined, data, "", FALSE)
         /\ UNCHANGED <<clock, nextConv, fsExists, home, historyDirExists>>
    ELSE createSessionAs("setClaudeSessionId", chatId, home, Undefined, ok)

setClaudeSessionId(chatId, claudeSessionId, ok) ==
    /\ IF chatId \in DOMAIN sessions
       THEN /\ sessions' = [sessions EXCEPT ![chatId].claudeSessionId = Some(claudeSessionId),
                                            ![chatId].lastActivity = clock]
            /\ data' = updateClaudeSessionIdIn(data, chatId,
                           sessions[chatId].conversationId, claudeSessionId, clock)
            /\ file' \in IF entryKnown(data, chatId, sessions[chatId].conversationId)
                       THEN save(file, data', ok) ELSE {file}
       ELSE UNCHANGED <<sessions, data, file>>
    /\ last' = Call("setClaudeSessionId", chatId, Undefined, data, "", FALSE)
    /\ UNCHANGED <<clock, nextConv, fsExists, home, historyDirExists>>

(***************************************************************************)
(* The public operations of SessionHistory, called directly.               *)
(***************************************************************************)
saveSession(chatId, conversationId, projectPath, lastMessagePreview, claudeSessionId, ok) ==
    /\ data' = saveSessionIn(data, chatId, conversationId, projectPath,
                             lastMessagePreview, claudeSessionId, clock)
    /\ file' \in save(file, data', ok)
    /\ last' = Call("saveSession", chatId, Undefined, data, conversationId, TRUE)
    /\ UNCHANGED <<sessions, clock, nextConv, fsExists, home, historyDirExists>>

updateLastMessage(chatId, conversationId, preview, ok) ==
    /\ data' = updateLastMessageIn(data, chatId, conversationId, preview, clock)
    /\ file' \in IF entryKnown(data, chatId, conversationId)
               THEN save(file, data', ok) ELSE {file}
    /\ last' = Call("updateLastMessage", chatId, Undefined, data, "", FALSE)
    /\ UNCHANGED <<sessions, clock, nextConv, fsExists, home, historyDirExists>>

updateClaudeSessionId(chatId, conversationId, claudeSessionId, ok) ==
    /\ data' = updateClaudeSessionIdIn(data, chatId, conversationId, claudeSessionId, clock)
    /\ file' \in IF entryKnown(data, chatId, conversationId)
               THEN save(file, data', ok) ELSE {file}
    /\ last' = Call("updateClaudeSessionId", chatId, Undefined, data, "", FALSE)
    /\ UNCHANGED <<sessions, clock, nextConv, fsExists, home, historyDirExists>>

\* clearHistory with a plausible slip: this.data.sessions = {}
clearHistoryOfAll(chatId, ok) ==
    /\ data' = EmptyMap
    /\ file' \in save(file, data', ok)
    /\ last' = Call("clearHistory", chatId, Undefined, data, "", FALSE)
    /\ UNCHANGED <<sessions, clock, nextConv, fsExists, home, historyDirExists>>

clearHistory(chatId, ok) ==
    /\ data' = Delete(data, chatId)
    /\ file' \in save(file, data', ok)
    /\ last' = Call("clearHistory", chatId, Undefined, data, "", FALSE)
    /\ UNCHANGED <<sessions, clock, nextConv, fsExists, home, historyDirExists>>

\* the result of a start of the process
Started(threw) ==
    [op |-> "construct", chatId |-> 0, ret |-> Undefined, prior |-> Undefined,
     existingIndex |-> -2, truncated |-> FALSE, threw |-> threw]

\* A start of the process: new SessionHistory() and new SessionManager().
\* ensureDirectory is outside any try: when HISTORY_DIR is missing and
\* fs.mkdirSync throws (mkdirOk is FALSE), the constructor throws.
construct(mkdirOk, readOk) ==
    IF ~historyDirExists /\ ~mkdirOk
    THEN /\ sessions' = EmptyMap
         /\ data' = EmptyMap
         /\ last' = Started(TRUE)
         /\ UNCHANGED <<file, clock, nextConv, fsExists, home, historyDirExists>>
    ELSE /\ historyDirExists' = TRUE
         /\ data' = load(file, readOk)
         /\ sessions' = EmptyMap
         /\ last' = Started(FALSE)
         /\ UNCHANGED <<file, clock, nextConv, fsExists, home>>

\* time passes between two calls
Tick ==
    /\ clock < MaxClock
    /\ clock' = clock + 1
    /\ UNCHANGED <<sessions, data, file, nextConv, fsExists, home, historyDirExists, last, calls>>

(***************************************************************************)
(* Spec: every public operation on two chats, in runs of at most MaxCalls  *)
(* calls, every write of the file succeeding.                              *)
(***************************************************************************)
Home == "/home/bob"
Dirs == {"/Users/alice/proj"}
SuppliedIds == {"a"}
\* a preview of PREVIEW_LENGTH + 1 characters
LongPreview ==
    "0---------1---------2---------3---------4---------5---------6---------7---------8---------9---------X"
Previews == {LongPreview}
ClaudeIds == {"cs1"}

Opt(S) == {Undefined} \cup {Some(x) : x \in S}
GeneratedIds(n) == {"conv_" \o ToString(i) : i \in 1..n}

Init ==
    /\ sessions = EmptyMap
    /\ data = EmptyMap
    /\ file = Undefined
    /\ clock = 0
    /\ nextConv = 0
    /\ home = Home
    /\ historyDirExists = TRUE
    /\ fsExists = {Home, "/home/bob/proj"}
    /\ last = NoCall
    /\ calls = 0

Counted == calls < MaxCalls /\ calls' = calls + 1

Next ==
    \/ \E c \in Chats, dir \in Dirs, id \in Opt(SuppliedIds) :
          Counted /\ createSession(c, dir, id, TRUE)
    \/ \E c \in Chats, p \in Opt(Previews) :
          Counted /\ updateActivity(c, p, TRUE)
    \/ \E c \in Chats, dir \in Dirs :
          Counted /\ setWorkingDirectory(c, dir, TRUE)
    \/ \E c \in Chats :
          Counted /\ clearSession(c)
    \/ \E c \in Chats, id \in SuppliedIds \cup GeneratedIds(MaxCalls) :
          Counted /\ resumeSession(c, id, TRUE)
    \/ \E c \in Chats :
          Counted /\ resumeLastSession(c, TRUE)
    \/ \E c \in Chats, cs \in ClaudeIds :
          Counted /\ setClaudeSessionId(c, cs, TRUE)
    \/ \E c \in Chats, id \in SuppliedIds, dir \in Dirs, p \in {""} \cup Previews,
          cs \in Opt(ClaudeIds) :
          Counted /\ saveSession(c, id, dir, p, cs, TRUE)
    \/ \E c \in Chats, id \in SuppliedIds, p \in Previews :
          Counted /\ updateLastMessage(c, id, p, TRUE)
    \/ \E c \in Chats, id \in SuppliedIds, cs \in ClaudeIds :
          Counted /\ updateClaudeSessionId(c, id, cs, TRUE)
    \/ \E c \in Chats :
          Counted /\ clearHistory(c, TRUE)
    \/ Counted /\ construct(TRUE, TRUE)
    \/ Tick

Spec == Init /\ [][Next]_vars

(***************************************************************************)
(* SpecCap: one chat filled up to and beyond MAX_HISTORY_PER_CHAT entries, *)
(* runs of any length, one directory, the clock standing still.            *)
(***************************************************************************)
CapChat == CHOOSE c \in Chats : \A d \in Chats : c <= d
UnknownId == "zz"

InitCap ==
    /\ sessions = EmptyMap
    /\ data = EmptyMap
    /\ file = Undefined
    /\ clock = 0
    /\ nextConv = 0
    /\ home = Home
    /\ historyDirExists = TRUE
    /\ fsExists = {Home}
    /\ last = NoCall
    /\ calls = 0

\* the newest and the oldest conversation of the chat, and an unknown one
ResumeTargets ==
    LET h == historyOf(data, CapChat)
    IN  {UnknownId} \cup {h[i].conversationId : i \in {1, Len(h)} \cap DOMAIN h}

NextCap ==
    \/ /\ nextConv < MaxGenCap
       /\ createSession(CapChat, Home, Undefined, TRUE)
       /\ UNCHANGED calls
    \/ \E id \in ResumeTargets :
          resumeSession(CapChat, id, TRUE) /\ UNCHANGED calls
    \/ resumeLastSession(CapChat, TRUE) /\ UNCHANGED calls
    \/ clearSession(CapChat) /\ UNCHANGED calls
    \/ \E id \in SuppliedIds :
          saveSession(CapChat, id, Home, "", Undefined, TRUE) /\ UNCHANGED calls

SpecCap == InitCap /\ [][NextCap]_vars

(***************************************************************************)
(* SpecFail: every public operation on one chat, in runs of at most        *)
(* MaxCalls calls, every write of the file succeeding or failing, and      *)
(* starts of the process in between.                                       *)
(***************************************************************************)
WriteOutcomes == BOOLEAN

NextFail ==
    \/ \E dir \in Dirs, id \in Opt(SuppliedIds), ok \in WriteOutcomes :
          Counted /\ createSession(CapChat, dir, id, ok)
    \/ \E p \in Opt(Previews), ok \in WriteOutcomes :
          Counted /\ updateActivity(CapChat, p, ok)
    \/ \E dir \in Dirs, ok \in WriteOutcomes :
          Counted /\ setWorkingDirectory(CapChat, dir, ok)
    \/ Counted /\ clearSession(CapChat)
    \/ \E id \in SuppliedIds \cup GeneratedIds(MaxCalls), ok \in WriteOutcomes :
          Counted /\ resumeSession(CapChat, id, ok)
    \/ \E ok \in WriteOutcomes :
          Counted /\ resumeLastSession(CapChat, ok)
    \/ \E cs \in ClaudeIds, ok \in WriteOutcomes :
          Counted /\ setClaudeSessionId(CapChat, cs, ok)
    \/ \E id \in SuppliedIds, dir \in Dirs, p \in {""} \cup Previews,
          cs \in Opt(ClaudeIds), ok \in WriteOutcomes :
          Counted /\ saveSession(CapChat, id, dir, p, cs, ok)
    \/ \E id \in SuppliedIds, p \in Previews, ok \in WriteOutcomes :
          Counted /\ updateLastMessage(CapChat, id, p, ok)
    \/ \E id \in SuppliedIds, cs \in ClaudeIds, ok \in WriteOutcomes :
          Counted /\ updateClaudeSessionId(CapChat, id, cs, ok)
    \/ \E ok \in WriteOutcomes :
          Counted /\ clearHistory(CapChat, ok)
    \/ Counted /\ construct(TRUE, TRUE)
    \/ Tick

SpecFail == Init /\ [][NextFail]_vars

(***************************************************************************)
(* SpecLoad: a start of the process on every file of a small universe of   *)
(* texts, HISTORY_DIR present or missing, mkdirSync and readFileSync        *)
(* succeeding or throwing.                                                  *)
(***************************************************************************)
GoodEntry ==
    jsonEntry([ conversationId |-> "a", claudeSessionId |-> Some("cs1"),
                projectPath |-> "/home/bob/proj", projectName |-> "proj",
                lastMessagePreview |-> "hi", createdAt |-> toISOString(0),
                lastActivity |-> toISOString(1) ])
GoodEntryNoId ==
    jsonEntry([ conversationId |-> "b", claudeSessionId |-> Undefined,
                projectPath |-> "/home/bob", projectName |-> "bob",
                lastMessagePreview |-> "", createdAt |-> toISOString(0),
                lastActivity |-> toISOString(0) ])
\* a well-formed entry with a key the schema does not know
GoodEntryExtraKey == JObj(Put(GoodEntryNoId.obj, "pinned", JNum(1)))

BadEntries ==
    {JObj(Delete(GoodEntry.obj, k)) : k \in RequiredKeys}
        \cup {JObj(Put(GoodEntry.obj, k, JNum(5))) : k \in RequiredKeys}
        \cup {JObj(Put(GoodEntry.obj, "claudeSessionId", JNull)), JNull, JStr("a")}

GoodLists ==
    {JArr(<<GoodEntry>>), JArr(<<GoodEntryNoId, GoodEntry>>),
     JArr(<<GoodEntryExtraKey>>), JArr(<<>>)}
BadLists ==
    {JArr(<<GoodEntry, b>>) : b \in BadEntries} \cup {JObj([a |-> GoodEntry]), JNull}

LoadKeys == {"1", "2", "1x", "abc"}

\* the texts the schema accepts
ValidTexts ==
    UNION { {JObj([sessions |-> JObj(o)]) : o \in [K -> GoodLists]} : K \in SUBSET LoadKeys }

\* texts with one ill-formed list beside a well-formed one, and texts that
\* are no document at all
InvalidTexts ==
    {JObj([sessions |-> JObj([k \in {"1", "2"} |->
                                IF k = "1" THEN JArr(<<GoodEntry>>) ELSE b])]) :
       b \in BadLists}
        \cup { NotJson, JNull, JArr(<<>>), JObj([other |-> JNull]),
               JObj([sessions |-> JArr(<<>>)]) }

InitLoad ==
    /\ sessions = EmptyMap
    /\ data = EmptyMap
    /\ file \in {Undefined} \cup {Some(t) : t \in ValidTexts \cup InvalidTexts}
    /\ clock = 0
    /\ nextConv = 0
    /\ home = Home
    /\ fsExists = {Home}
    /\ historyDirExists \in BOOLEAN
    /\ file # Undefined => historyDirExists
    /\ last = NoCall
    /\ calls = 0

NextLoad ==
    \E mkdirOk \in BOOLEAN, readOk \in BOOLEAN :
        construct(mkdirOk, readOk) /\ UNCHANGED calls

SpecLoad == InitLoad /\ [][NextLoad]_vars

(***************************************************************************)
(* SpecManager: the operations of the SessionManager only, on two chats.   *)
(* One chat creates and resumes conversations without limit, up to and     *)
(* beyond MAX_HISTORY_PER_CHAT entries and creates its newest conversation *)
(* again; every other call, on either chat,                                *)
(* is one of at most MaxSideCalls calls of a run.                          *)
(***************************************************************************)
\* the newest and the oldest conversation of chat c, and an unknown one
TargetsOf(c) ==
    LET h == historyOf(data, c)
    IN  {UnknownId} \cup {h[i].conversationId : i \in {1, Len(h)} \cap DOMAIN h}

\* the oldest conversation of chat c
OldestOf(c) ==
    LET h == historyOf(data, c)
    IN  {h[i].conversationId : i \in {Len(h)} \cap DOMAIN h}

\* the newest conversation of chat c
NewestOf(c) ==
    LET h == historyOf(data, c)
    IN  {h[i].conversationId : i \in {1} \cap DOMAIN h}

SideCall == calls < MaxSideCalls /\ calls' = calls + 1

NextManager ==
    \/ /\ nextConv < MaxGenCap
       /\ createSession(CapChat, Home, Undefined, TRUE)
       /\ UNCHANGED calls
    \/ \E id \in OldestOf(CapChat) :
          resumeSession(CapChat, id, TRUE) /\ UNCHANGED calls
    \/ \E id \in NewestOf(CapChat) :
          createSession(CapChat, Home, Some(id), TRUE) /\ UNCHANGED calls
    \/ \E c \in Chats \ {CapChat} :
          /\ nextConv < MaxGenCap
          /\ SideCall /\ createSession(c, Home, Undefined, TRUE)
    \/ \E c \in Chats, dir \in Dirs :
          \E id \in SuppliedIds \cup OldestOf(c) :
             SideCall /\ createSession(c, dir, Some(id), TRUE)
    \/ \E c \in Chats, p \in Opt(Previews) :
          SideCall /\ updateActivity(c, p, TRUE)
    \/ \E c \in Chats, dir \in Dirs :
          SideCall /\ setWorkingDirectory(c, dir, TRUE)
    \/ \E c \in Chats :
          SideCall /\ clearSession(c)
    \/ \E c \in Chats :
          \E id \in TargetsOf(c) :
             SideCall /\ resumeSession(c, id, TRUE)
    \/ \E c \in Chats :
          SideCall /\ resumeLastSession(c, TRUE)
    \/ \E c \in Chats, cs \in ClaudeIds :
          SideCall /\ setClaudeSessionId(c, cs, TRUE)

SpecManager == InitCap /\ [][NextManager]_vars

(***************************************************************************)
(* SpecResolve: resolveWorkingDirectory on every stored path, home         *)
(* directory and set of existing paths of a small universe.                *)
(***************************************************************************)
StoredPaths ==
    { "/home/bob/proj", "/Users/alice/proj", "/Users/alice", "/Users/alice/",
      "/Users//proj", "/home/carol/proj/sub", "/home/carol", "/tmp/x", "",
      "/Users", "/home/", "Users/alice/proj", "/Usersx/alice/proj" }
Homes == {"/home/bob", "/root"}
FsUniverse ==
    { "/home/bob", "/home/bob/proj", "/root/proj", "/Users/alice/proj",
      "/home/bob/", "/home/bob/proj/sub", "/tmp/x" }

InitResolve ==
    /\ sessions = EmptyMap
    /\ data = EmptyMap
    /\ file = Undefined
    /\ clock = 0
    /\ nextConv = 0
    /\ home \in Homes
    /\ historyDirExists = TRUE
    /\ fsExists \in SUBSET FsUniverse
    /\ last = NoCall
    /\ calls = 0

\* a call of resolveWorkingDirectory(storedPath); it changes no state
resolveCall(storedPath) ==
    /\ last' = [ op |-> "resolveWorkingDirectory", chatId |-> 0,
                 ret |-> Some(resolveWorkingDirectory(storedPath)),
                 prior |-> Undefined, existingIndex |-> -2, truncated |-> FALSE,
                 storedPath |-> storedPath ]
    /\ UNCHANGED <<sessions, data, file, clock, nextConv, fsExists, home, historyDirExists, calls>>

NextResolve == \E p \in StoredPaths : resolveCall(p)

SpecResolve == InitResolve /\ [][NextResolve]_vars

(***************************************************************************)
(* SpecResume: on every home directory and set of existing paths of        *)
(* SpecResolve, a conversation stored with any path of StoredPaths is      *)
(* resumed, again and again, in runs of at most MaxCalls calls; before     *)
(* that, resolveWorkingDirectory is called on its own.                     *)
(***************************************************************************)
NextResume ==
    \/ \E p \in StoredPaths :
          data = EmptyMap /\ resolveCall(p)
    \/ \E p \in StoredPaths, id \in SuppliedIds :
          /\ data = EmptyMap
          /\ Counted /\ saveSession(CapChat, id, p, "", Undefined, TRUE)
    \/ \E id \in SuppliedIds :
          Counted /\ resumeSession(CapChat, id, TRUE)
    \/ Tick

SpecResume == InitResolve /\ [][NextResume]_vars

(***************************************************************************)
(* SpecMove: one chat whose live session is moved with                     *)
(* setWorkingDirectory, between calls of SessionManager and direct calls   *)
(* of SessionHistory on two conversations, in runs of any length.          *)
(***************************************************************************)
MoveIds == SuppliedIds \cup {"b"}

NextMove ==
    \/ \E id \in MoveIds :
          createSession(CapChat, Home, Some(id), TRUE) /\ UNCHANGED calls
    \/ \E id \in MoveIds :
          resumeSession(CapChat, id, TRUE) /\ UNCHANGED calls
    \/ \E p \in Previews :
          updateActivity(CapChat, Some(p), TRUE) /\ UNCHANGED calls
    \/ \E cs \in ClaudeIds :
          setClaudeSessionId(CapChat, cs, TRUE) /\ UNCHANGED calls
    \/ \E dir \in Dirs :
          /\ CapChat \in DOMAIN sessions
          /\ setWorkingDirectory(CapChat, dir, TRUE) /\ UNCHANGED calls
    \/ \E id \in MoveIds :
          saveSession(CapChat, id, Home, "", Undefined, TRUE) /\ UNCHANGED calls
    \/ clearHistory(CapChat, TRUE) /\ UNCHANGED calls
    \/ Tick

SpecMove == InitCap /\ [][NextMove]_vars

(***************************************************************************)
(* The claims.                                                             *)
(***************************************************************************)
HistoryIds(h) == {h[i].conversationId : i \in 1..Len(h)}
LiveId(c) == sessions[c].conversationId
CreateArgs == Opt(SuppliedIds)
AllDirs == Dirs \cup {Home}

\* a call on chat c whose saveSession found no entry for the conversation
\* (Tick, the one step that makes no call, moves the clock)
InsertedInto(c) == clock' = clock /\ last'.chatId = c /\ last'.existingIndex = -1

\* C1: every chat's history holds at most MAX_HISTORY_PER_CHAT entries, and
\* when saveSession inserts a new conversation into a chat holding that many,
\* the chat holds exactly that many afterwards: the new entry at the head,
\* followed by the old list without its tail entry.
C1_CappedEvictsTail ==
    [][ /\ \A c \in DOMAIN data' : Len(data'[c]) <= MAX_HISTORY_PER_CHAT
        /\ \A c \in DOMAIN data :
              (InsertedInto(c) /\ Len(data[c]) = MAX_HISTORY_PER_CHAT)
              => /\ c \in DOMAIN data'
                 /\ Len(data'[c]) = MAX_HISTORY_PER_CHAT
                 /\ data'[c][1].conversationId \notin HistoryIds(data[c])
                 /\ SubSeq(data'[c], 2, MAX_HISTORY_PER_CHAT)
                      = SubSeq(data[c], 1, MAX_HISTORY_PER_CHAT - 1)
                 /\ data[c][MAX_HISTORY_PER_CHAT].conversationId
                      \notin HistoryIds(data'[c]) ]_vars

\* a full chat into which a new conversation has just been inserted
C1_Witness ==
    /\ CapChat \in DOMAIN data
    /\ Len(data[CapChat]) = MAX_HISTORY_PER_CHAT
    /\ last.truncated
    /\ last.existingIndex = -1

StoreIds == SuppliedIds
StorePreviews == {""} \cup Previews
ResumeArgs == SuppliedIds \cup GeneratedIds(MaxCalls)
IndexIn(h, id) == CHOOSE i \in 1..Len(h) : h[i].conversationId = id

\* C2: saveSession for a conversation the chat already holds replaces that
\* entry where it is: same length, same position, every other entry as
\* before, createdAt kept, and claudeSessionId kept when the call passes none.
C2_ReplacedInPlace ==
    [][ \A c \in Chats, id \in StoreIds, dir \in Dirs, p \in StorePreviews,
           cs \in Opt(ClaudeIds) :
          ( /\ last'.op = "saveSession"
            /\ saveSession(c, id, dir, p, cs, TRUE)
            /\ id \in HistoryIds(historyOf(data, c)) )
          => LET h == data[c]
                 h2 == data'[c]
                 i == IndexIn(h, id)
             IN  /\ Len(h2) = Len(h)
                 /\ h2[i].conversationId = id
                 /\ \A j \in (1..Len(h)) \ {i} : h2[j] = h[j]
                 /\ h2[i].createdAt = h[i].createdAt
                 /\ cs = Undefined => h2[i].claudeSessionId = h[i].claudeSessionId
                 /\ cs # Undefined => h2[i].claudeSessionId = cs ]_vars

\* saveSession has updated the second entry of a chat, at a later time than
\* the entry was created, and the entry has a claudeSessionId
C2_Witness ==
    /\ last.op = "saveSession"
    /\ last.existingIndex = 1
    /\ LET e == data[last.chatId][2]
       IN  /\ e.claudeSessionId # Undefined
           /\ e.createdAt # e.lastActivity

\* C4: clearSession(c) removes the live session of c and changes nothing
\* else (other live sessions, the history, the file, what getSessionHistory
\* returns); a resumeSession(c, X) that follows, X in the history, succeeds.
C4_ClearSessionKeepsHistory ==
    [][ /\ \A c \in Chats :
              (last'.op = "clearSession" /\ clearSession(c))
              => /\ getSession(c)' = Undefined
                 /\ \A d \in Chats \ {c} : getSession(d)' = getSession(d)
                 /\ data' = data
                 /\ file' = file
                 /\ \A d \in Chats : getSessionHistory(d, 5)' = getSessionHistory(d, 5)
        /\ \A c \in Chats, id \in ResumeArgs :
              ( /\ last.op = "clearSession"
                /\ last.chatId = c
                /\ last'.op = "resumeSession"
                /\ resumeSession(c, id, TRUE)
                /\ id \in HistoryIds(historyOf(data, c)) )
              => /\ last'.ret # Undefined
                 /\ getSession(c)' = last'.ret
                 /\ sessions'[c].conversationId = id ]_vars

\* clearSession has removed a live session of a chat that has history
C4_Witness ==
    /\ last.op = "clearSession"
    /\ last.prior # Undefined
    /\ last.chatId \notin DOMAIN sessions
    /\ last.prior[1] \in HistoryIds(historyOf(data, last.chatId))

\* C5: resumeSession(c, X) for an X that is not in the history of c returns
\* undefined and changes neither the live sessions, nor the history, nor the file.
C5_ResumeUnknownChangesNothing ==
    [][ \A c \in Chats, id \in ResumeArgs :
          ( /\ last'.op = "resumeSession"
            /\ resumeSession(c, id, TRUE)
            /\ id \notin HistoryIds(historyOf(data, c)) )
          => /\ last'.ret = Undefined
             /\ sessions' = sessions
             /\ data' = data
             /\ file' = file ]_vars

\* resumeSession has returned undefined for a chat that has a live session
\* and a history
C5_Witness ==
    /\ last.op = "resumeSession"
    /\ last.ret = Undefined
    /\ last.chatId \in DOMAIN sessions
    /\ Len(historyOf(data, last.chatId)) > 0

\* C6: resumeSession(c, X) for an X in the history of c installs a session
\* with X, the entry's createdAt and claudeSessionId and the resolved
\* projectPath; the entry keeps its position, createdAt, preview and
\* claudeSessionId, its projectPath becomes the resolved path, and the length
\* of the list and every other entry stay as they were.
C6_ResumeKnown ==
    [][ \A c \in Chats, id \in ResumeArgs :
          ( /\ last'.op = "resumeSession"
            /\ resumeSession(c, id, TRUE)
            /\ id \in HistoryIds(historyOf(data, c)) )
          => LET h == data[c]
                 h2 == data'[c]
                 i == IndexIn(h, id)
                 s == sessions'[c]
             IN  /\ last'.ret = Some(s)
                 /\ s.conversationId = id
                 /\ s.createdAt = DateOf(h[i].createdAt)
                 /\ s.claudeSessionId = h[i].claudeSessionId
                 /\ s.workingDirectory = resolveWorkingDirectory(h[i].projectPath)
                 /\ Len(h2) = Len(h)
                 /\ h2[i].conversationId = id
                 /\ h2[i].createdAt = h[i].createdAt
                 /\ h2[i].lastMessagePreview = h[i].lastMessagePreview
                 /\ h2[i].claudeSessionId = h[i].claudeSessionId
                 /\ h2[i].projectPath = resolveWorkingDirectory(h[i].projectPath)
                 /\ \A j \in (1..Len(h)) \ {i} : h2[j] = h[j] ]_vars

\* resumeSession has resumed, after its creation time, a conversation with a
\* preview and a claudeSessionId whose stored path had to be remapped
C6_Witness ==
    /\ last.op = "resumeSession"
    /\ last.ret # Undefined
    /\ LET s == sessions[last.chatId]
           e == data[last.chatId][last.existingIndex + 1]
       IN  /\ s.createdAt < s.lastActivity
           /\ s.claudeSessionId # Undefined
           /\ s.workingDirectory = "/home/bob/proj"
           /\ e.projectPath = "/home/bob/proj"
           /\ e.lastMessagePreview = Substring(LongPreview, PREVIEW_LENGTH)

\* C7: resumeLastSession(c) on a chat without history returns undefined and
\* changes nothing; on a chat with history it is resumeSession(c, X) for the
\* X of the first entry of the list.
C7_ResumeLastIsResumeOfHead ==
    [][ \A c \in Chats :
          (last'.op = "resumeLastSession" /\ resumeLastSession(c, TRUE))
          => IF historyOf(data, c) = <<>>
             THEN /\ last'.ret = Undefined
                  /\ sessions' = sessions
                  /\ data' = data
                  /\ file' = file
             ELSE /\ resumeSessionAs("resumeLastSession", c, data[c][1].conversationId, TRUE)
                  /\ last'.ret = getSession(c)'
                  /\ sessions'[c].conversationId = data[c][1].conversationId ]_vars

\* resumeLastSession has resumed the first of two conversations of a chat
C7_Witness ==
    /\ last.op = "resumeLastSession"
    /\ last.ret # Undefined
    /\ Len(data[last.chatId]) >= 2
    /\ LiveId(last.chatId) = data[last.chatId][1].conversationId
    /\ last.prior # Some(LiveId(last.chatId))

\* C8 as stated: after createSession(c, dir, id) the live session has the
\* resolved directory and no claudeSessionId, and the history of c has an
\* entry for its conversation with that path, an empty preview and no
\* claudeSessionId.
C8_Original ==
    [][ \A c \in Chats, dir \in Dirs, id \in CreateArgs :
          (last'.op = "createSession" /\ createSession(c, dir, id, TRUE))
          => LET s == sessions'[c]
                 h == historyOf(data', c)
             IN  /\ s.workingDirectory = resolveWorkingDirectory(dir)
                 /\ s.claudeSessionId = Undefined
                 /\ \E i \in 1..Len(h) :
                       /\ h[i].conversationId = s.conversationId
                       /\ h[i].projectPath = s.workingDirectory
                       /\ h[i].lastMessagePreview = ""
                       /\ h[i].claudeSessionId = Undefined ]_vars

\* C9 as stated: setWorkingDirectory(c, d) on a chat with a live session keeps
\* the session's conversationId, createdAt and claudeSessionId, sets its
\* workingDirectory to d as given, adds no history entry and gives the entry
\* of the conversation projectPath d; on a chat without a live session it is
\* createSession(c, d).
C9_Original ==
    [][ \A c \in Chats, d \in Dirs :
          (last'.op = "setWorkingDirectory" /\ setWorkingDirectory(c, d, TRUE))
          => IF c \in DOMAIN sessions
             THEN LET s == sessions[c]
                      s2 == sessions'[c]
                      h == historyOf(data, c)
                      h2 == historyOf(data', c)
                  IN  /\ s2.conversationId = s.conversationId
                      /\ s2.createdAt = s.createdAt
                      /\ s2.claudeSessionId = s.claudeSessionId
                      /\ s2.workingDirectory = d
                      /\ Len(h2) = Len(h)
                      /\ \E i \in 1..Len(h2) :
                            /\ h2[i].conversationId = s.conversationId
                            /\ h2[i].projectPath = d
             ELSE /\ createSessionAs("setWorkingDirectory", c, d, Undefined, TRUE)
                  /\ sessions'[c].workingDirectory = resolveWorkingDirectory(d) ]_vars

\* C9 amended: as stated, except that no history entry is added only when the
\* live conversation has an entry in the history of c; when it has none, an
\* entry for it with projectPath d is inserted at the head.
C9_SetWorkingDirectory ==
    [][ \A c \in Chats, d \in Dirs :
          (last'.op = "setWorkingDirectory" /\ setWorkingDirectory(c, d, TRUE))
          => IF c \in DOMAIN sessions
             THEN LET s == sessions[c]
                      s2 == sessions'[c]
                      h == historyOf(data, c)
                      h2 == historyOf(data', c)
                  IN  /\ s2.conversationId = s.conversationId
                      /\ s2.createdAt = s.createdAt
                      /\ s2.claudeSessionId = s.claudeSessionId
                      /\ s2.workingDirectory = d
                      /\ IF s.conversationId \in HistoryIds(h)
                         THEN /\ Len(h2) = Len(h)
                              /\ h2[IndexIn(h, s.conversationId)].conversationId
                                   = s.conversationId
                              /\ h2[IndexIn(h, s.conversationId)].projectPath = d
                         ELSE /\ Len(h2) = Min(Len(h) + 1, MAX_HISTORY_PER_CHAT)
                              /\ h2[1].conversationId = s.conversationId
                              /\ h2[1].projectPath = d
             ELSE /\ createSessionAs("setWorkingDirectory", c, d, Undefined, TRUE)
                  /\ sessions'[c].workingDirectory = resolveWorkingDirectory(d) ]_vars

\* setWorkingDirectory has given a live session, and its history entry, a
\* directory that does not exist
C9_Witness ==
    /\ last.op = "setWorkingDirectory"
    /\ last.prior = Some(LiveId(last.chatId))
    /\ last.existingIndex >= 0
    /\ sessions[last.chatId].workingDirectory \notin fsExists
    /\ data[last.chatId][last.existingIndex + 1].projectPath
         = sessions[last.chatId].workingDirectory

\* the path the claim C10 describes: the first separator after the user name
\* is found by its position, not with indexOf
FirstSeparators(p, prefix) ==
    { i \in (Len(prefix) + 1)..Len(p) :
        /\ SubSeq(p, i, i) = "/"
        /\ \A j \in (Len(prefix) + 1)..(i - 1) : SubSeq(p, j, j) # "/" }

RemapCandidates(h, p) ==
    UNION { { h \o SubSeq(p, i, Len(p)) : i \in FirstSeparators(p, prefix) } :
            prefix \in { x \in {"/Users/", "/home/"} : StartsWith(p, x) } }

ResolvedAsSpecified(fs, h, p) ==
    IF p \in fs THEN p
    ELSE IF RemapCandidates(h, p) \cap fs # {}
         THEN CHOOSE x \in RemapCandidates(h, p) \cap fs : TRUE
         ELSE h

\* C10: resolveWorkingDirectory(p) is p when p exists; otherwise, when p
\* starts with /Users/ or /home/ and the home directory followed by the part
\* of p from the first separator after the user name exists, that path;
\* otherwise the home directory.
C10_ResolvedAsSpecified ==
    last.op = "resolveWorkingDirectory"
    => /\ last.ret = Some(ResolvedAsSpecified(fsExists, home, last.storedPath))
       /\ Cardinality(RemapCandidates(home, last.storedPath)) <= 1

\* a path of another user's home has been remapped under the current home
C10_Witness ==
    /\ last.op = "resolveWorkingDirectory"
    /\ last.storedPath = "/Users/alice/proj"
    /\ home = "/home/bob"
    /\ "/Users/alice/proj" \notin fsExists
    /\ last.ret = Some("/home/bob/proj")

\* q is the first min(|p|, PREVIEW_LENGTH) characters of p
FirstCharsOf(q, p) ==
    /\ Len(q) = (IF Len(p) < PREVIEW_LENGTH THEN Len(p) ELSE PREVIEW_LENGTH)
    /\ SubSeq(p, 1, Len(q)) = q

\* C11: no history entry has a lastMessagePreview longer than PREVIEW_LENGTH
\* characters, and saveSession and updateLastMessage (on a known conversation)
\* called with a preview p store the first min(|p|, PREVIEW_LENGTH)
\* characters of p.
C11_PreviewTruncated ==
    [][ /\ \A c \in DOMAIN data' : \A i \in 1..Len(data'[c]) :
              Len(data'[c][i].lastMessagePreview) <= PREVIEW_LENGTH
        /\ \A c \in Chats, id \in StoreIds, p \in StorePreviews :
              ( /\ last'.op = "saveSession"
                /\ \E dir \in Dirs, cs \in Opt(ClaudeIds) :
                      saveSession(c, id, dir, p, cs, TRUE) )
              => FirstCharsOf(data'[c][IndexIn(data'[c], id)].lastMessagePreview, p)
        /\ \A c \in Chats, id \in StoreIds, p \in Previews :
              ( /\ last'.op = "updateLastMessage"
                /\ updateLastMessage(c, id, p, TRUE)
                /\ id \in HistoryIds(historyOf(data, c)) )
              => FirstCharsOf(data'[c][IndexIn(data'[c], id)].lastMessagePreview, p)
      ]_vars

\* updateLastMessage has stored a preview cut to PREVIEW_LENGTH characters
C11_Witness ==
    /\ last.op = "updateLastMessage"
    /\ last.chatId \in DOMAIN data
    /\ \E i \in 1..Len(data[last.chatId]) :
          LET q == data[last.chatId][i].lastMessagePreview
          IN  Len(q) = PREVIEW_LENGTH /\ q # LongPreview /\ StartsWith(LongPreview, q)

\* C12: when every write succeeds, loading the file yields the in-memory
\* history (same chats, same entries in the same order, same field values, an
\* absent claudeSessionId absent), and a start of the process leaves that
\* history in memory and no live session.
C12_RoundTrip ==
    [][ /\ load(file', TRUE) = data'
        /\ (last'.op = "construct" /\ construct(TRUE, TRUE))
           => (data' = data /\ sessions' = EmptyMap) ]_vars

\* the process has started again with two chats in the file, one entry with a
\* claudeSessionId and one without
C12_Witness ==
    /\ last.op = "construct"
    /\ DOMAIN data = Chats
    /\ \E c \in Chats : data[c][1].claudeSessionId = Undefined
    /\ \E c \in Chats : data[c][1].claudeSessionId # Undefined
    /\ sessions = EmptyMap

\* a step of op whose write fails leaves the file as it was
KeepsFile(op(_)) == op(FALSE) => file' = file

\* C13 as stated, its part about the file: a mutating operation whose write
\* fails leaves the file with its previous content, and every step leaves in
\* the file either what it held or the whole in-memory history.
C13_Original ==
    [][ /\ \A dir \in Dirs, id \in Opt(SuppliedIds) :
              KeepsFile(LAMBDA ok : createSession(CapChat, dir, id, ok))
        /\ \A id \in SuppliedIds \cup GeneratedIds(MaxCalls) :
              KeepsFile(LAMBDA ok : resumeSession(CapChat, id, ok))
        /\ \A dir \in Dirs :
              KeepsFile(LAMBDA ok : setWorkingDirectory(CapChat, dir, ok))
        /\ \A p \in Opt(Previews) :
              KeepsFile(LAMBDA ok : updateActivity(CapChat, p, ok))
        /\ \A cs \in ClaudeIds :
              KeepsFile(LAMBDA ok : setClaudeSessionId(CapChat, cs, ok))
        /\ \A id \in SuppliedIds, dir \in Dirs, p \in StorePreviews, cs \in Opt(ClaudeIds) :
              KeepsFile(LAMBDA ok : saveSession(CapChat, id, dir, p, cs, ok))
        /\ KeepsFile(LAMBDA ok : clearHistory(CapChat, ok))
        /\ file' = file \/ file' = Some(stringify(data')) ]_vars

\* the object under "sessions" of the text in the file
SessionsOf(f) == f[1].obj.sessions.obj

\* whether load reads a text the schema accepts
Loadable(readOk) == file # Undefined /\ readOk /\ file[1] \in ValidTexts

\* C14 as stated: a start of the process never fails; after it the history is
\* empty when the file is missing, unreadable, no JSON text or has an entry
\* with a missing or wrongly-typed field, and holds the lists of the file
\* when the schema accepts the file.
C14_Original ==
    [][ \A mkdirOk \in BOOLEAN, readOk \in BOOLEAN :
          construct(mkdirOk, readOk)
          => /\ ~last'.threw
             /\ ~Loadable(readOk) => data' = EmptyMap
             /\ Loadable(readOk)
                => /\ \A c \in DOMAIN data' : \E k \in DOMAIN SessionsOf(file) :
                         data'[c] = parsedList(SessionsOf(file)[k])
                   /\ \A c \in Chats : ToString(c) \in DOMAIN SessionsOf(file)
                                       => c \in DOMAIN data' ]_vars

\* C20 as stated: when the schema accepts the file, the chats loaded are the
\* numbers whose decimal form is a key of the file (any other key is
\* skipped), and the list of chat n is the list under the decimal form of n.
C20_Original ==
    [][ \A mkdirOk \in BOOLEAN, readOk \in BOOLEAN :
          (construct(mkdirOk, readOk) /\ Loadable(readOk) /\ ~last'.threw)
          => /\ \A c \in DOMAIN data' : ToString(c) \in DOMAIN SessionsOf(file)
             /\ \A c \in Chats :
                   ToString(c) \in DOMAIN SessionsOf(file)
                   => /\ c \in DOMAIN data'
                      /\ data'[c] = parsedList(SessionsOf(file)[ToString(c)]) ]_vars

\* C15 as stated: in every chat's history no entry has a later lastActivity
\* than an entry placed before it, so getLastSession returns the conversation
\* that was active most recently.
C15_Original ==
    \A c \in DOMAIN data : \A i \in 1..Len(data[c]) : \A j \in i..Len(data[c]) :
        DateOf(data[c][i].lastActivity) >= DateOf(data[c][j].lastActivity)

\* the live session of c: same chats afterwards, same conversation,
\* directory and creation time
SameConversations ==
    /\ DOMAIN sessions' = DOMAIN sessions
    /\ \A d \in DOMAIN sessions :
          /\ sessions'[d].conversationId = sessions[d].conversationId
          /\ sessions'[d].workingDirectory = sessions[d].workingDirectory
          /\ sessions'[d].createdAt = sessions[d].createdAt

NothingChanged == sessions' = sessions /\ data' = data /\ file' = file

\* C16: updateActivity and setClaudeSessionId leave the set of chats with a
\* live session and every live session's conversationId, workingDirectory and
\* createdAt as they are, and change nothing for a chat without a live
\* session.  A chat gets a live session only in createSession, resumeSession,
\* resumeLastSession or setWorkingDirectory on that chat, and loses it only in
\* clearSession on that chat (or when the process starts again).
C16_ActivityKeepsState ==
    [][ /\ \A c \in Chats, p \in Opt(Previews) :
              (last'.op = "updateActivity" /\ updateActivity(c, p, TRUE))
              => /\ SameConversations
                 /\ c \notin DOMAIN sessions => NothingChanged
        /\ \A c \in Chats, cs \in ClaudeIds :
              (last'.op = "setClaudeSessionId" /\ setClaudeSessionId(c, cs, TRUE))
              => /\ SameConversations
                 /\ c \notin DOMAIN sessions => NothingChanged
        /\ \A c \in Chats :
              (c \notin DOMAIN sessions /\ c \in DOMAIN sessions')
              => /\ last'.chatId = c
                 /\ last'.op \in {"createSession", "resumeSession",
                                  "resumeLastSession", "setWorkingDirectory"}
        /\ \A c \in Chats :
              (c \in DOMAIN sessions /\ c \notin DOMAIN sessions')
              => \/ last'.op = "clearSession" /\ last'.chatId = c
                 \/ last'.op = "construct" ]_vars

\* setClaudeSessionId has acted on a chat with a live session while the other
\* chat has none
C16_Witness ==
    /\ last.op = "setClaudeSessionId"
    /\ last.prior # Undefined
    /\ sessions[last.chatId].claudeSessionId = Some("cs1")
    /\ DOMAIN sessions = {last.chatId}

\* C17: no chat's history holds two entries with the same conversationId.
C17_UniqueConversationIds ==
    \A c \in DOMAIN data : \A i \in 1..Len(data[c]) : \A j \in 1..Len(data[c]) :
        data[c][i].conversationId = data[c][j].conversationId => i = j

\* a call has saved a caller-supplied conversation id that the chat already
\* held, in a history of two entries
C17_Witness ==
    /\ last.op \in {"createSession", "saveSession"}
    /\ last.existingIndex >= 0
    /\ Len(data[last.chatId]) = 2
    /\ data[last.chatId][last.existingIndex + 1].conversationId \in SuppliedIds

\* the history entry of the conversation that is live for chat c
LiveEntry(c) == data[c][IndexIn(data[c], LiveId(c))]

\* C18: every chat with a live session has a history entry for the live
\* conversation, and that entry's projectPath is the session's
\* workingDirectory; the cap never evicts the entry of the live conversation.
C18_LiveEntryKept ==
    \A c \in DOMAIN sessions :
        /\ LiveId(c) \in HistoryIds(historyOf(data, c))
        /\ LiveEntry(c).projectPath = sessions[c].workingDirectory

\* both chats have a live session, and the live conversation of one chat is
\* the last of MAX_HISTORY_PER_CHAT entries
C18_Witness ==
    /\ DOMAIN sessions = Chats
    /\ Len(data[CapChat]) = MAX_HISTORY_PER_CHAT
    /\ LiveId(CapChat) = data[CapChat][MAX_HISTORY_PER_CHAT].conversationId

\* C19 as stated: for every chat with a live session, the claudeSessionId of
\* the session and the claudeSessionId of the history entry of its
\* conversation agree.
C19_Original ==
    \A c \in DOMAIN sessions :
        LiveId(c) \in HistoryIds(historyOf(data, c))
        => LiveEntry(c).claudeSessionId = sessions[c].claudeSessionId

\* the history with the lists of every chat but c removed
Only(d, c) == [x \in (DOMAIN d) \cap {c} |-> d[x]]

\* what SessionHistory reads and computes for chat c depends on the list of c
\* alone
LocalTo(c) ==
    /\ getLastSession(data, c) = getLastSession(Only(data, c), c)
    /\ \A id \in StoreIds \cup {UnknownId} :
          /\ getSessionByConversationId(data, c, id)
               = getSessionByConversationId(Only(data, c), c, id)
          /\ historyOf(saveSessionIn(data, c, id, Home, "", Undefined, clock), c)
               = historyOf(saveSessionIn(Only(data, c), c, id, Home, "", Undefined, clock), c)
          /\ historyOf(updateLastMessageIn(data, c, id, "x", clock), c)
               = historyOf(updateLastMessageIn(Only(data, c), c, id, "x", clock), c)
          /\ \A cs \in ClaudeIds :
                historyOf(updateClaudeSessionIdIn(data, c, id, cs, clock), c)
                  = historyOf(updateClaudeSessionIdIn(Only(data, c), c, id, cs, clock), c)

\* C21: a call of an operation with chat id c leaves the live session and the
\* history list of every other chat d as they are (present or absent, and
\* equal), and what the store reads and computes for a chat depends on that
\* chat's list alone.
C21_ChatIsolation ==
    /\ [][ last'.op # "construct"
           => \A d \in Chats \ {last'.chatId} :
                 /\ d \in DOMAIN sessions' <=> d \in DOMAIN sessions
                 /\ d \in DOMAIN sessions => sessions'[d] = sessions[d]
                 /\ d \in DOMAIN data' <=> d \in DOMAIN data
                 /\ d \in DOMAIN data => data'[d] = data[d] ]_vars
    /\ [](\A c \in Chats : LocalTo(c))

\* clearHistory has acted on one chat while the other chat has a live session
\* and a history
C21_Witness ==
    /\ last.op = "clearHistory"
    /\ \E d \in Chats \ {last.chatId} : d \in DOMAIN sessions /\ d \in DOMAIN data
    /\ last.chatId \in DOMAIN sessions

\* C22: resolveWorkingDirectory(p) is a path that exists or the home
\* directory, and resolving it again gives the same path; a resumeSession that
\* follows a resumeSession of the same conversation gives the live session the
\* same workingDirectory and leaves the projectPath of the entry as it is.
C22_ResolveIdempotent ==
    [][ /\ last'.op = "resolveWorkingDirectory"
           => LET r == last'.ret[1]
              IN  /\ existsSync(fsExists, r) \/ r = home
                  /\ resolveIn(fsExists, home, r) = r
        /\ \A id \in SuppliedIds :
              ( /\ last.op = "resumeSession" /\ last.ret # Undefined
                /\ last.ret[1].conversationId = id
                /\ calls' = calls + 1
                /\ resumeSession(CapChat, id, TRUE) )
              => /\ sessions'[CapChat].workingDirectory = sessions[CapChat].workingDirectory
                 /\ data'[CapChat][1].projectPath = data[CapChat][1].projectPath ]_vars

\* a conversation was resumed twice, the second time later than the first,
\* and its directory is a remapped path: not the home directory
C22_Witness ==
    /\ last.op = "resumeSession"
    /\ last.ret # Undefined
    /\ calls = MaxCalls
    /\ clock > 0
    /\ DateOf(data[CapChat][1].lastActivity) = clock
    /\ sessions[CapChat].workingDirectory = "/root/proj"
    /\ ~existsSync(fsExists, "/home/bob/proj")

\* setWorkingDirectory(CapChat, d) has acted on a live session
Moved(d) ==
    /\ CapChat \in DOMAIN sessions
    /\ last'.op = "setWorkingDirectory"
    /\ setWorkingDirectory(CapChat, d, TRUE)

\* C23 as stated: setWorkingDirectory(c, d) on a chat with a live session
\* leaves the history entry of the live conversation with an empty
\* lastMessagePreview, and the entry's createdAt, claudeSessionId and position
\* in the list are as before.
C23_Original ==
    [][ \A d \in Dirs :
          Moved(d)
          => LET id == LiveId(CapChat)
                 h == historyOf(data, CapChat)
                 h2 == historyOf(data', CapChat)
             IN  /\ id \in HistoryIds(h2)
                 /\ h2[IndexIn(h2, id)].lastMessagePreview = ""
                 /\ id \in HistoryIds(h)
                    => /\ IndexIn(h2, id) = IndexIn(h, id)
                       /\ Len(h2) = Len(h)
                       /\ h2[IndexIn(h, id)].createdAt = h[IndexIn(h, id)].createdAt
                       /\ h2[IndexIn(h, id)].claudeSessionId
                            = h[IndexIn(h, id)].claudeSessionId ]_vars

\* C23 amended: as stated, except that the entry's claudeSessionId is
\* unchanged only when the live session has none; when the live session has
\* one, the entry's claudeSessionId becomes the live session's.  Every other
\* entry of the list is as before.
C23_PreviewReset ==
    [][ \A d \in Dirs :
          Moved(d)
          => LET id == LiveId(CapChat)
                 s == sessions[CapChat]
                 h == historyOf(data, CapChat)
                 h2 == historyOf(data', CapChat)
             IN  /\ id \in HistoryIds(h2)
                 /\ h2[IndexIn(h2, id)].lastMessagePreview = ""
                 /\ id \in HistoryIds(h)
                    => /\ IndexIn(h2, id) = IndexIn(h, id)
                       /\ Len(h2) = Len(h)
                       /\ \A j \in 1..Len(h) :
                             j # IndexIn(h, id) => h2[j] = h[j]
                       /\ h2[IndexIn(h, id)].createdAt = h[IndexIn(h, id)].createdAt
                       /\ h2[IndexIn(h, id)].claudeSessionId
                            = IF s.claudeSessionId = Undefined
                              THEN h[IndexIn(h, id)].claudeSessionId
                              ELSE s.claudeSessionId ]_vars

\* setWorkingDirectory has acted on a live session whose entry is the second
\* of the list, was created earlier and holds a claudeSessionId
C23_Witness ==
    /\ last.op = "setWorkingDirectory"
    /\ CapChat \in DOMAIN sessions
    /\ last.prior = Some(LiveId(CapChat))
    /\ last.existingIndex > 0
    /\ LiveEntry(CapChat).lastMessagePreview = ""
    /\ LiveEntry(CapChat).claudeSessionId # Undefined
    /\ DateOf(LiveEntry(CapChat).createdAt) < DateOf(LiveEntry(CapChat).lastActivity)

====
